---- MODULE Spec2Model ----
(***************************************************************************)
(* Model of max_profit_cli.py: MaxProfitSolver.solve_dp_all_solutions (the *)
(* forward DP over time steps with the list of all optimal building-count  *)
(* combinations), MaxProfitSolver.calculate_profit / validate_solution     *)
(* (the fixed-order simulation of one combination) and print_summary (the  *)
(* per-solution validation of a returned result).                          *)
(*                                                                         *)
(* Python lists are sequences; dp[i] of the code is dp[i + 1] here.  The   *)
(* code builds dp as [(0, [zero])] * n, so all slots start as one shared   *)
(* tuple; the code never mutates that tuple or its list (best_solutions is *)
(* a list(...) copy, every combination is .copy()'d before += 1), so value *)
(* semantics models it exactly.                                            *)
(***************************************************************************)
EXTENDS Integers, Sequences, FiniteSets, TLC

\* Largest horizon a call is made with.
MaxHorizon == 20
\* Calls are also made with the negative horizons -MaxNegative .. -1.
MaxNegative == 2

\* Key order of the solution dictionaries (the literal of line 29).
Names == <<"Theatre", "Pub", "Commercial Park">>

NameSet == {Names[i] : i \in 1..Len(Names)}

\* The configuration table.
BUILDINGS ==
  ("Theatre" :> [time |-> 5, earning |-> 1500]) @@
  ("Pub" :> [time |-> 4, earning |-> 1000]) @@
  ("Commercial Park" :> [time |-> 10, earning |-> 3000])

\* The table as the program ships it, in BUILDINGS.items() order.
BuiltIn == <<"Theatre", "Pub", "Commercial Park">>

\* The catalogs a run is made with: the built-in table and the tables that
\* keep only some of its entries, in declaration order.
Catalogs ==
  { BuiltIn, <<"Theatre">>, <<"Pub">>, <<"Commercial Park">>,
    <<"Theatre", "Pub">>, <<"Theatre", "Commercial Park">>,
    <<"Pub", "Commercial Park">> }

Horizons == (0 - MaxNegative)..MaxHorizon

\* {'Theatre': 0, 'Pub': 0, 'Commercial Park': 0}
ZeroSolution == [n \in NameSet |-> 0]

\* (0, [zero]) : the value every dp slot starts with.
InitialEntry == [profit |-> 0, solutions |-> <<ZeroSolution>>]

\* Faulty variant: a list that is never empty.
DpLenClamped(time_units) == IF time_units + 1 > 0 THEN time_units + 1 ELSE 1

\* Length of [x] * (time_units + 1): a non-positive factor gives the empty list.
DpLen(time_units) == IF time_units + 1 > 0 THEN time_units + 1 ELSE 0

\* Python's list indexing: lst[i] exists iff -len <= i < len.
PyIndexValid(len, i) == (0 - len) <= i /\ i < len

\* The 1-based position of lst[i] for a valid Python index i.
PyIndex(len, i) == IF i >= 0 THEN i + 1 ELSE len + i + 1

\* new_solution = prev_solution.copy(); new_solution[building] += 1
Increment(solution, building) ==
  [solution EXCEPT ![building] = solution[building] + 1]

\* new_solution not in best_solutions (dict equality, element by element)
Contains(solutions, s) == \E i \in 1..Len(solutions) : solutions[i] = s

\* Faulty variant: counts the period of completion as earning.
OperationalPeriodsOffByOne(time_units, tt) == time_units - tt + 1

\* operational_periods = time_units - t
OperationalPeriods(time_units, tt) == time_units - tt

\* Faulty variant: reads the slot one step too late.
PrevIndexOffByOne(tt, build_time) == tt - build_time + 1

\* the index of dp[t - build_time]
PrevIndex(tt, build_time) == tt - build_time

\* Faulty variant: != in place of >.
IsBetterOrWorse(new_profit, best_profit) == new_profit # best_profit

\* if new_profit > max_profit
IsBetter(new_profit, best_profit) == new_profit > best_profit

\* elif new_profit == max_profit
IsTie(new_profit, best_profit) == new_profit = best_profit

\* max_profit = dp[t-1][0]
SeedProfit(d, tt) == d[PyIndex(Len(d), tt - 1)].profit

\* best_solutions = list(dp[t-1][1])
SeedSolutions(d, tt) == d[PyIndex(Len(d), tt - 1)].solutions

RECURSIVE IncrementAll(_, _)
IncrementAll(prev_solutions, building) ==
  IF prev_solutions = <<>> THEN <<>>
  ELSE <<Increment(Head(prev_solutions), building)>>
         \o IncrementAll(Tail(prev_solutions), building)

\* Faulty variant: best_solutions is not cleared first.
ReplaceBestKeepOld(best, prev_solutions, building) ==
  best \o IncrementAll(prev_solutions, building)

\* new_profit > max_profit: best_solutions = [] and every incremented
\* previous solution is appended.
ReplaceBest(best, prev_solutions, building) ==
  IncrementAll(prev_solutions, building)

\* Faulty variant: ties are not merged.
MergeTiesDropped(best, prev_solutions, building) == best

\* new_profit == max_profit: every incremented previous solution that is
\* not yet in best_solutions is appended.
RECURSIVE MergeTiesLoop(_, _, _)
MergeTiesLoop(best, prev_solutions, building) ==
  IF prev_solutions = <<>> THEN best
  ELSE LET new_solution == Increment(Head(prev_solutions), building)
       IN  MergeTiesLoop(
             IF Contains(best, new_solution) THEN best
             ELSE Append(best, new_solution),
             Tail(prev_solutions), building)

MergeTies(best, prev_solutions, building) ==
  MergeTiesLoop(best, prev_solutions, building)

\* if operational_periods > 0: total_profit += earning * operational_periods
\* (calculate_profit)
InstanceProfit(time_units, construction_end_time, earning) ==
  LET operational_periods == time_units - construction_end_time
  IN  IF operational_periods > 0 THEN earning * operational_periods ELSE 0

\* Faulty variant: no test of operational_periods, one period too many.
ValidateInstanceProfitUnclamped(time_units, construction_end_time, earning) ==
  earning * (time_units - construction_end_time + 1)

\* the same lines of validate_solution
ValidateInstanceProfit(time_units, construction_end_time, earning) ==
  LET operational_periods == time_units - construction_end_time
  IN  IF operational_periods > 0 THEN earning * operational_periods ELSE 0

\* for _ in range(count): the loop over the instances of one building type,
\* from the running (total_profit, current_time).
RECURSIVE ValidateInstances(_, _, _, _)
ValidateInstances(time_units, building, count, acc) ==
  IF count = 0 THEN acc
  ELSE LET build_time == BUILDINGS[building].time
           construction_end_time == acc.current_time + build_time
       IN  ValidateInstances(time_units, building, count - 1,
             [total_profit |-> acc.total_profit
                + ValidateInstanceProfit(time_units, construction_end_time,
                                         BUILDINGS[building].earning),
              current_time |-> construction_end_time])

\* for building, count in solution.items(): in the dictionary's key order.
RECURSIVE ValidateItems(_, _, _, _)
ValidateItems(time_units, solution, i, acc) ==
  IF i > Len(Names) THEN acc
  ELSE ValidateItems(time_units, solution, i + 1,
         IF solution[Names[i]] > 0
         THEN ValidateInstances(time_units, Names[i], solution[Names[i]], acc)
         ELSE acc)

\* validate_solution: (is_valid, calculated_profit); the message is not modelled.
validate_solution(time_units, solution) ==
  LET r == ValidateItems(time_units, solution, 1,
                         [total_profit |-> 0, current_time |-> 0])
  IN  [is_valid |-> r.current_time <= time_units,
       calculated_profit |-> r.total_profit,
       time_used |-> r.current_time]

VARIABLES
  catalog,         \* the keys of BUILDINGS in use, in items() order
  pc,              \* position of the caller / solver
  time_units,      \* argument of the running call
  dp,              \* dp list of the running call
  t,               \* outer loop variable
  bi,              \* position of the inner loop in BUILDINGS.items()
  max_profit,      \* local of the outer loop body
  best_solutions,  \* local of the outer loop body
  result,          \* <<>> or <<the returned (max_profit, solutions)>>
  summary,         \* what print_summary got from validate_solution, per solution
  last_run         \* <<>> or <<[time_units, max_profit] of the previous returned call>>

vars == <<catalog, pc, time_units, dp, t, bi, max_profit, best_solutions,
          result, summary, last_run>>

Init ==
  /\ catalog \in Catalogs
  /\ pc = "idle"
  /\ time_units = 0
  /\ dp = <<>>
  /\ t = 0
  /\ bi = 0
  /\ max_profit = 0
  /\ best_solutions = <<>>
  /\ result = <<>>
  /\ summary = <<>>
  /\ last_run = <<>>

\* solver.solve_dp_all_solutions(h): line 29 and the entry of the outer loop.
Call(h) ==
  /\ pc = "idle"
  /\ time_units' = h
  /\ dp' = [i \in 1..DpLen(h) |-> InitialEntry]
  /\ t' = 1
  /\ bi' = 0
  /\ max_profit' = 0
  /\ best_solutions' = <<>>
  /\ result' = <<>>
  /\ summary' = <<>>
  /\ pc' = IF 1 <= h THEN "step" ELSE "return"
  /\ UNCHANGED <<catalog, last_run>>

\* Lines 32-33: seed the step with dp[t-1].
StepBegin ==
  /\ pc = "step"
  /\ max_profit' = SeedProfit(dp, t)
  /\ best_solutions' = SeedSolutions(dp, t)
  /\ bi' = 1
  /\ pc' = "building"
  /\ UNCHANGED <<catalog, time_units, dp, t, result, summary, last_run>>

\* Lines 35-60: one iteration of the loop over BUILDINGS.items().
ConsiderBuilding ==
  /\ pc = "building"
  /\ bi <= Len(catalog)
  /\ LET building == catalog[bi]
         build_time == BUILDINGS[building].time
         earning == BUILDINGS[building].earning
     IN  IF t >= build_time
         THEN LET operational_periods == OperationalPeriods(time_units, t)
                  total_earning == earning * operational_periods
                  prev == dp[PyIndex(Len(dp), PrevIndex(t, build_time))]
                  new_profit == prev.profit + total_earning
              IN  IF IsBetter(new_profit, max_profit)
                  THEN /\ max_profit' = new_profit
                       /\ best_solutions' =
                            ReplaceBest(best_solutions, prev.solutions, building)
                  ELSE IF IsTie(new_profit, max_profit)
                  THEN /\ max_profit' = max_profit
                       /\ best_solutions' =
                            MergeTies(best_solutions, prev.solutions, building)
                  ELSE UNCHANGED <<max_profit, best_solutions>>
         ELSE UNCHANGED <<max_profit, best_solutions>>
  /\ bi' = bi + 1
  /\ UNCHANGED <<catalog, pc, time_units, dp, t, result, summary, last_run>>

\* Line 62 and the loop's next iteration or exit.
StoreStep ==
  /\ pc = "building"
  /\ bi > Len(catalog)
  /\ dp' = [dp EXCEPT ![PyIndex(Len(dp), t)] =
              [profit |-> max_profit, solutions |-> best_solutions]]
  /\ t' = t + 1
  /\ pc' = IF t + 1 <= time_units THEN "step" ELSE "return"
  /\ UNCHANGED <<catalog, time_units, bi, max_profit, best_solutions,
                 result, summary, last_run>>

\* Line 64: return dp[time_units]; an index outside the list raises IndexError.
Return ==
  /\ pc = "return"
  /\ IF PyIndexValid(Len(dp), time_units)
     THEN /\ result' = <<dp[PyIndex(Len(dp), time_units)]>>
          /\ pc' = "returned"
     ELSE /\ result' = <<>>
          /\ pc' = "error"
  /\ UNCHANGED <<catalog, time_units, dp, t, bi, max_profit, best_solutions,
                 summary, last_run>>

\* print_summary: validate_solution on every returned solution.
PrintSummary ==
  /\ pc = "returned"
  /\ summary' = [i \in 1..Len(result[1].solutions) |->
                   validate_solution(time_units, result[1].solutions[i])]
  /\ pc' = "summarised"
  /\ UNCHANGED <<catalog, time_units, dp, t, bi, max_profit, best_solutions,
                 result, last_run>>

\* The caller goes on to its next call (each call builds a fresh solver).
NextCall ==
  /\ pc \in {"summarised", "error"}
  /\ last_run' = IF pc = "summarised"
                 THEN <<[time_units |-> time_units,
                         max_profit |-> result[1].profit]>>
                 ELSE last_run
  /\ pc' = "idle"
  /\ UNCHANGED <<catalog, time_units, dp, t, bi, max_profit, best_solutions,
                 result, summary>>

Next ==
  \/ \E h \in Horizons : Call(h)
  \/ StepBegin
  \/ ConsiderBuilding
  \/ StoreStep
  \/ Return
  \/ PrintSummary
  \/ NextCall

Spec == Init /\ [][Next]_vars

(***************************************************************************)
(* Reference notions the claims are stated with.                           *)
(***************************************************************************)

Max(S) == CHOOSE x \in S : \A y \in S : y <= x

\* The largest sum of rate * (h - finish) over all sequences of catalog
\* buildings built back to back from time cur and finished by h.
RECURSIVE RefMax(_, _, _)
RefMax(cat, h, cur) ==
  Max({0} \cup
      { BUILDINGS[cat[i]].earning * (h - (cur + BUILDINGS[cat[i]].time))
          + RefMax(cat, h, cur + BUILDINGS[cat[i]].time) :
        i \in {j \in 1..Len(cat) : cur + BUILDINGS[cat[j]].time <= h} })

\* The profits the instances of a combination earn, over all the orders in
\* which they can be built back to back from time cur.
RECURSIVE OrderProfits(_, _, _)
OrderProfits(solution, h, cur) ==
  IF \A n \in NameSet : solution[n] = 0 THEN {0}
  ELSE UNION
    { { InstanceProfit(h, cur + BUILDINGS[n].time, BUILDINGS[n].earning) + p :
        p \in OrderProfits([solution EXCEPT ![n] = solution[n] - 1], h,
                           cur + BUILDINGS[n].time) } :
      n \in {m \in NameSet : solution[m] > 0} }

\* sum(count(b) * duration(b))
TotalTime(solution) ==
  solution["Theatre"] * BUILDINGS["Theatre"].time
    + solution["Pub"] * BUILDINGS["Pub"].time
    + solution["Commercial Park"] * BUILDINGS["Commercial Park"].time

\* The shortest construction duration of the table.
MinTime ==
  CHOOSE d \in {BUILDINGS[n].time : n \in NameSet} :
    \A n \in NameSet : d <= BUILDINGS[n].time

InCatalog(cat, n) == \E i \in 1..Len(cat) : cat[i] = n

\* The combinations over the catalog whose total construction time is <= h.
FeasibleCombos(cat, h) ==
  { s \in [NameSet -> 0..(h \div MinTime)] :
      /\ \A n \in NameSet : ~InCatalog(cat, n) => s[n] = 0
      /\ TotalTime(s) <= h }

SolutionSet(solutions) == {solutions[i] : i \in 1..Len(solutions)}

NoDuplicates(solutions) ==
  \A i, j \in 1..Len(solutions) : solutions[i] = solutions[j] => i = j

Only(n, k) == [ZeroSolution EXCEPT ![n] = k]

(***************************************************************************)
(* The claims.                                                             *)
(***************************************************************************)

\* C1: for every horizon h >= 0 and every catalog, the max_profit returned
\* by solve_dp_all_solutions(h) equals the largest profit of any sequence of
\* buildings built one at a time from time 0 within h.
C1_MaxProfitIsReferenceMax ==
  pc = "returned" => result[1].profit = RefMax(catalog, time_units, 0)

C1_Witness ==
  /\ pc = "returned"
  /\ catalog = BuiltIn
  /\ time_units = 20
  /\ result[1].profit = 46000

\* C2: every combination within the horizon that earns the maximum profit
\* in some construction order is among the returned solutions.
C2_Complete ==
  pc = "returned" =>
    \A s \in FeasibleCombos(catalog, time_units) :
      RefMax(catalog, time_units, 0) \in OrderProfits(s, time_units, 0)
        => Contains(result[1].solutions, s)

C2_Witness ==
  /\ pc = "returned"
  /\ catalog = BuiltIn
  /\ time_units = 19
  /\ Cardinality({s \in FeasibleCombos(catalog, time_units) :
        RefMax(catalog, time_units, 0) \in OrderProfits(s, time_units, 0)}) = 3
  /\ Len(result[1].solutions) = 3

\* C3: every returned combination earns exactly the returned max_profit in
\* some order of its instances, built back to back from time 0.
C3_Sound ==
  pc = "returned" =>
    \A i \in 1..Len(result[1].solutions) :
      result[1].profit \in OrderProfits(result[1].solutions[i], time_units, 0)

C3_Witness ==
  /\ pc = "returned"
  /\ time_units = 14
  /\ catalog = BuiltIn
  /\ \E i \in 1..Len(result[1].solutions) :
       /\ result[1].solutions[i]["Theatre"] > 0
       /\ result[1].solutions[i]["Pub"] > 0
       /\ Cardinality(OrderProfits(result[1].solutions[i], time_units, 0)) > 1

\* C4: the solution list stored at every time step, and the returned one, is
\* non-empty and holds no combination twice.
C4_NonEmptyNoDuplicates ==
  /\ \A i \in 1..Len(dp) :
       dp[i].solutions # <<>> /\ NoDuplicates(dp[i].solutions)
  /\ result # <<>> =>
       result[1].solutions # <<>> /\ NoDuplicates(result[1].solutions)

\* A step stored after the copy of step t-1, a replacement and a union that
\* met a combination already present.
C4_Witness ==
  /\ pc = "returned"
  /\ catalog = BuiltIn
  /\ time_units = 9
  /\ Len(result[1].solutions) = 3
  /\ \E i \in 2..Len(dp) : Len(dp[i].solutions) = 1 /\ dp[i].profit > dp[i-1].profit

\* C5: every combination stored for step t has total construction time <= t,
\* and validate_solution reports every returned combination valid.
C5_Feasible ==
  /\ \A i \in 1..Len(dp) : \A k \in 1..Len(dp[i].solutions) :
       TotalTime(dp[i].solutions[k]) <= i - 1
  /\ pc = "summarised" => \A k \in 1..Len(summary) : summary[k].is_valid

C5_Witness ==
  /\ pc = "summarised"
  /\ time_units > 0
  /\ \E k \in 1..Len(summary) :
       summary[k].is_valid /\ summary[k].time_used = time_units
  /\ \E k \in 1..Len(summary) :
       summary[k].is_valid /\ summary[k].time_used < time_units

\* C6 as stated: Theatre only, horizon 10: max_profit 7500 and the solution
\* set is exactly {Theatre: 1}.
C6_Original ==
  (pc = "returned" /\ catalog = <<"Theatre">> /\ time_units = 10) =>
    /\ result[1].profit = 7500
    /\ result[1].solutions = <<Only("Theatre", 1)>>

\* C6 as amended: Theatre only, horizon 10: max_profit 7500 and the solution
\* set is exactly {Theatre: 1} and {Theatre: 2} (the second Theatre finishes
\* at 10, earns nothing and ties).
C6_Amended ==
  (pc = "returned" /\ catalog = <<"Theatre">> /\ time_units = 10) =>
    /\ result[1].profit = 7500
    /\ result[1].solutions = <<Only("Theatre", 1), Only("Theatre", 2)>>

C6_Witness ==
  /\ pc = "returned"
  /\ catalog = <<"Theatre">>
  /\ time_units = 10
  /\ Len(result[1].solutions) = 2

\* C7: with a single building type of duration d and horizon h = d, the
\* optimizer returns max_profit 0 and both the all-zero combination and the
\* combination with count 1.
C7_FinishAtHorizonTies ==
  (/\ pc = "returned"
   /\ Len(catalog) = 1
   /\ time_units = BUILDINGS[catalog[1]].time) =>
    /\ result[1].profit = 0
    /\ Contains(result[1].solutions, ZeroSolution)
    /\ Contains(result[1].solutions, Only(catalog[1], 1))

C7_Witness ==
  /\ pc = "returned"
  /\ catalog = <<"Pub">>
  /\ time_units = 4
  /\ result[1].solutions = <<ZeroSolution, Only("Pub", 1)>>

\* C8: a call with a negative horizon executes no DP step and never returns
\* a value: it stands before line 64 or has raised.
C8_NegativeHorizonRaises ==
  time_units < 0 =>
    /\ pc \in {"return", "error", "idle"}
    /\ result = <<>>
    /\ t = 1

C8_Witness == pc = "error" /\ time_units < 0

\* C9: a call with horizon h >= 1 returns a max_profit at least that of the
\* call with horizon h - 1 made before it with the same catalog.
C9_Monotone ==
  (/\ pc = "returned"
   /\ time_units >= 1
   /\ last_run # <<>>
   /\ last_run[1].time_units = time_units - 1) =>
    result[1].profit >= last_run[1].max_profit

C9_Witness ==
  /\ pc = "returned"
  /\ time_units = 5
  /\ catalog = BuiltIn
  /\ last_run # <<>>
  /\ last_run[1].time_units = 4
  /\ result[1].profit > last_run[1].max_profit

\* C10: with the built-in catalog and a horizon h >= 1, the profit that
\* validate_solution computes for every returned combination equals the
\* returned max_profit.
C10_ValidatedProfitIsMax ==
  (pc = "summarised" /\ catalog = BuiltIn /\ time_units >= 1) =>
    \A k \in 1..Len(summary) :
      summary[k].calculated_profit = result[1].profit

C10_Witness ==
  /\ pc = "summarised"
  /\ catalog = BuiltIn
  /\ time_units = 20
  /\ \E k \in 1..Len(summary) :
       /\ result[1].solutions[k]["Theatre"] > 0
       /\ result[1].solutions[k]["Pub"] > 0
       /\ summary[k].calculated_profit = 46000

====
